---- MODULE Spec2Model ----
(***************************************************************************)
(* Model of the Tenderbox contracts:                                       *)
(*   TenderFactory        (src/src/create_tender.rs)                       *)
(*   VerifyTenderContract (src/src/verify_tender.rs)                       *)
(* and of the NEAR platform primitives they consume (account-id syntax,    *)
(* attached deposits, promise batches and their callbacks).                *)
(*                                                                         *)
(* Account ids are sequences of one-character strings, so that the         *)
(* format!("{}.{}", ..) composition and the account-id syntax check are    *)
(* computed, not assumed.  Amounts are in whole NEAR (1 = 10^24 yocto).    *)
(*                                                                         *)
(* Every step is one call (or one platform event) run to completion.  The  *)
(* variable last records the call, pre the state it started from, so that  *)
(* what a call did can be read off a state.                                *)
(***************************************************************************)
EXTENDS Integers, Sequences, FiniteSets, TLC

VARIABLES
    tender_account_ids,        \* TenderFactory.tender_account_ids
    verify_tender_account_id,  \* TenderFactory.verify_tender_account_id
    foundation_account_id,     \* VerifyTenderContract.foundation_account_id
    verified,                  \* VerifyTenderContract.verified
    factory_verified,          \* VerifyTenderContract.factory_verified
    promises,                  \* provisioning chains issued by create_tender, with their callback arguments
    registry_calls,            \* add_tender calls sent by the factory, not yet executed by the registry
    balance,                   \* platform ledger: balance of the named accounts
    tender_accounts,           \* platform ledger: accounts created by a provisioning chain, with their balance
    last,                      \* the last call: its arguments, how it ended, what it returned and sent
    pre                        \* the contracts' state and the ledger as the last call found them

vars == <<tender_account_ids, verify_tender_account_id, foundation_account_id,
          verified, factory_verified, promises, registry_calls, balance,
          tender_accounts, last, pre>>

factoryVars == <<tender_account_ids, verify_tender_account_id>>
registryVars == <<foundation_account_id, verified, factory_verified>>
ledgerVars == <<balance, tender_accounts>>

----------------------------------------------------------------------------
(* Bounds of the model *)

\* what each requester holds at the start, in whole NEAR: enough for one
\* deposit of 30 or of 31, and again after a refund
InitialBalance == 31

----------------------------------------------------------------------------
(* Accounts *)

Factory    == <<"f", "y">>     \* env::current_account_id() of the factory
Registry   == <<"v", "t">>     \* the deployed VerifyTenderContract
Foundation == <<"t", "b">>     \* the Tenderbox foundation
OtherFactory == <<"g", "f">>   \* another factory account
Mallory    == <<"m", "x">>     \* an account with no role
Alice      == <<"a", "l">>
Bob        == <<"b", "o">>

Requesters == {Alice, Bob}

\* tender_registration_id arguments: well-formed ones, one holding the
\* separator, one holding a character outside the syntax
ShortIds == { <<"a">>, <<"b">>, <<"a", ".", "b">>, <<"A">> }

\* owner_id arguments
OwnerIds == { Bob, <<"B", "o">> }

\* attached deposits, in whole NEAR (the tests attach 20 and 31)
Deposits == {20, 30, 31}

NoId == <<>>

----------------------------------------------------------------------------
(* Platform primitives *)

MIN_ACCOUNT_ID_LEN == 2
MAX_ACCOUNT_ID_LEN == 64

LowerOrDigit == {"a", "b", "f", "g", "l", "m", "o", "t", "v", "x", "y", "0", "1"}
Separators == {"-", "_", "."}

\* env::is_valid_account_id: the scan over the bytes, remembering whether the
\* last one was a separator
RECURSIVE ScanAccountId(_, _, _)
ScanAccountId(s, i, last_char_is_separator) ==
    IF i > Len(s) THEN ~last_char_is_separator
    ELSE IF s[i] \in LowerOrDigit THEN ScanAccountId(s, i + 1, FALSE)
    ELSE IF s[i] \in Separators
         THEN IF last_char_is_separator THEN FALSE
              ELSE ScanAccountId(s, i + 1, TRUE)
    ELSE FALSE

is_valid_account_id(s) ==
    /\ Len(s) >= MIN_ACCOUNT_ID_LEN
    /\ Len(s) <= MAX_ACCOUNT_ID_LEN
    /\ ScanAccountId(s, 1, TRUE)

\* tender_registration_id.find('.') is Some
HasDot(s) == \E i \in 1..Len(s) : s[i] = "."

\* format!("{}.{}", tender_registration_id, env::current_account_id())
ComposeAccountId(short, current) == short \o <<".">> \o current

\* Promise::new(to).transfer(amount)
TransferPromise(to, amount) ==
    [kind |-> "transfer", to |-> to, id |-> NoId, amount |-> amount]

\* ext_whitelist::add_tender(id, &to, NO_DEPOSIT, gas)
AddTenderPromise(to, id) ==
    [kind |-> "add_tender", to |-> to, id |-> id, amount |-> 0]

\* Promise::new(id).create_account().transfer(amount).deploy_contract(..).function_call("new", ..)
ChainPromise(id, amount) ==
    [kind |-> "chain", to |-> id, id |-> id, amount |-> amount]

\* the platform moves `amount` from one account of the ledger to another
Pay(bal, from, to, amount) ==
    [a \in DOMAIN bal |->
        IF a = from /\ a = to THEN bal[a]
        ELSE IF a = from THEN bal[a] - amount
        ELSE IF a = to THEN bal[a] + amount
        ELSE bal[a]]

----------------------------------------------------------------------------
(* What a step leaves behind for the properties to read *)

\* op: the method; caller: its predecessor; id: the account id the call is
\* about (for create_tender the composed one); short, owner: the other
\* arguments of create_tender; deposit: the deposit attached (create_tender)
\* or passed (on_tender_create); requester, result: the other argument of
\* on_tender_create and the chain's result it runs with; outcome: "ok" or
\* the abort; ret: the value returned; sent: the promises created
Call(op, caller, id, args, outcome, ret, sent) ==
    [op |-> op, caller |-> caller, id |-> id,
     short |-> args.short, owner |-> args.owner, deposit |-> args.deposit,
     requester |-> args.requester, result |-> args.result,
     outcome |-> outcome, ret |-> ret, sent |-> sent]

NoArgs ==
    [short |-> NoId, owner |-> NoId, deposit |-> 0, requester |-> NoId,
     result |-> "none"]

Snapshot ==
    [tender_account_ids |-> tender_account_ids,
     promises |-> promises,
     registry_calls |-> registry_calls,
     balance |-> balance,
     tender_accounts |-> tender_accounts,
     verified |-> verified,
     factory_verified |-> factory_verified]

Observe(call) ==
    /\ last' = call
    /\ pre' = Snapshot

----------------------------------------------------------------------------
(* TenderFactory *)

\* 30 NEAR; the model counts in whole NEAR
MIN_ATTACHED_BALANCE == 30

\* the first assert of create_tender, as written:
\* env::attached_deposit() = MIN_ATTACHED_BALANCE
DepositAccepted(attached_deposit) == attached_deposit = MIN_ATTACHED_BALANCE

\* variant: the result of insert is not looked at
InsertIsNew_ignored(ids, id) == TRUE

\* self.tender_account_ids.insert(&id): TRUE when the id was not in the set
InsertIsNew(ids, id) == id \notin ids

\* the asserts of create_tender, in their order; "ok" when all pass
create_tender_outcome(ids, current, short, owner_id, attached_deposit) ==
    LET tender_account_id == ComposeAccountId(short, current) IN
    IF ~DepositAccepted(attached_deposit) THEN "InsufficientDeposit"
    ELSE IF HasDot(short) THEN "InvalidIdentifierFormat"
    ELSE IF ~is_valid_account_id(tender_account_id) THEN "InvalidIdentifier"
    ELSE IF ~is_valid_account_id(owner_id) THEN "InvalidOwner"
    ELSE IF ~InsertIsNew(ids, tender_account_id) THEN "IdentifierAlreadyReserved"
    ELSE "ok"

\* variant: the chain is issued without the id being inserted
create_tender_ids_never(ids, id, outcome) == ids

\* variant: the insert is done before the owner is checked, and stays
create_tender_ids_early(ids, id, outcome) ==
    IF outcome \in {"ok", "InvalidOwner"} THEN ids \cup {id} ELSE ids

\* tender_account_ids when create_tender ends with `outcome`: a panic leaves
\* the state as it was, a completed call has inserted the id
create_tender_ids(ids, id, outcome) ==
    IF outcome = "ok" THEN ids \cup {id} ELSE ids

\* the arguments the chain carries to on_tender_create, and the chain's result
PendingCreation(id, deposit, requester, result) ==
    [id |-> id, deposit |-> deposit, requester |-> requester, result |-> result]

\* variant: the callback is given the owner, not the caller of create_tender
create_tender_then_owner(id, attached_deposit, predecessor, owner_id) ==
    [id |-> id, deposit |-> attached_deposit, requester |-> owner_id,
     result |-> "NotReady"]

\* .then(ext_self::on_tender_create(tender_account_id, attached_deposit,
\* predecessor_account_id, ..)): what the callback will be called with, the
\* chain not yet settled
create_tender_then(id, attached_deposit, predecessor, owner_id) ==
    PendingCreation(id, attached_deposit, predecessor, "NotReady")

\* The attached deposit is the caller's to attach; it is the factory's while
\* the call runs and after it completes, and the caller's again if it panics.
create_tender(predecessor, short, owner_id, attached_deposit) ==
    LET current == Factory
        id == ComposeAccountId(short, current)
        outcome == create_tender_outcome(tender_account_ids, current, short,
                                         owner_id, attached_deposit)
        args == [short |-> short, owner |-> owner_id, deposit |-> attached_deposit,
                 requester |-> NoId, result |-> "none"]
    IN  /\ balance[predecessor] >= attached_deposit
        /\ tender_account_ids' = create_tender_ids(tender_account_ids, id, outcome)
        /\ IF outcome = "ok"
           THEN /\ promises' = promises \cup
                       {create_tender_then(id, attached_deposit, predecessor, owner_id)}
                /\ balance' = Pay(balance, predecessor, current, attached_deposit)
                /\ Observe(Call("create_tender", predecessor, id, args, "ok",
                                "promise", {ChainPromise(id, attached_deposit)}))
           ELSE /\ UNCHANGED <<promises, balance>>
                /\ Observe(Call("create_tender", predecessor, id, args, outcome,
                                "none", {}))
        /\ UNCHANGED <<verify_tender_account_id, registryVars, registry_calls,
                       tender_accounts>>

\* The platform runs the chain: all four steps, or none of them.  An account
\* cannot be created twice.
chain_settles(p, result) ==
    /\ p \in promises
    /\ p.result = "NotReady"
    /\ result = "Successful" => p.id \notin DOMAIN tender_accounts
    /\ promises' = (promises \ {p}) \cup
                       {PendingCreation(p.id, p.deposit, p.requester, result)}
    /\ IF result = "Successful"
       THEN /\ tender_accounts' =
                   [a \in DOMAIN tender_accounts \cup {p.id} |->
                       IF a = p.id THEN p.deposit ELSE tender_accounts[a]]
            /\ balance' = Pay(balance, Factory, p.id, p.deposit)
       ELSE UNCHANGED <<balance, tender_accounts>>
    /\ Observe(Call("chain", Factory, p.id,
                    [short |-> NoId, owner |-> NoId, deposit |-> p.deposit,
                     requester |-> p.requester, result |-> result],
                    "ok", "none", {}))
    /\ UNCHANGED <<factoryVars, registryVars, registry_calls>>

\* utils::assert_self: the predecessor is the contract itself
assert_self(predecessor, current) == predecessor = current

\* utils::is_promise_success
is_promise_success(result) == result = "Successful"

\* variant: the callback takes every chain for failed
tender_created_never(result) == FALSE

\* on_tender_create: let tender_created = is_promise_success()
tender_created(result) == is_promise_success(result)

\* variant: the guard lets the requesters through as well
on_tender_create_guard_requesters(predecessor) ==
    predecessor \in Requesters \cup {Factory}

\* variant: no guard
on_tender_create_guard_none(predecessor) == TRUE

\* the guard on_tender_create opens with
on_tender_create_guard(predecessor) == assert_self(predecessor, Factory)

\* variant: the failure branch clears the set
on_tender_create_release_all(ids, id) == {}

\* variant: the failure branch forgets the remove
on_tender_create_release_none(ids, id) == ids

\* the failure branch: self.tender_account_ids.remove(&tender_account_id)
on_tender_create_release(ids, id) == ids \ {id}

\* variant: the failure branch transfers nothing back
on_tender_create_refund_nothing(predecessor_account_id, attached_deposit) ==
    TransferPromise(predecessor_account_id, 0)

\* the failure branch: Promise::new(predecessor_account_id).transfer(attached_deposit.0)
on_tender_create_refund(predecessor_account_id, attached_deposit) ==
    TransferPromise(predecessor_account_id, attached_deposit)

\* variant: the success branch sends nothing and returns
on_tender_create_register_none(registry, tender_account_id) == {}

\* the success branch: ext_whitelist::add_tender(tender_account_id,
\* &self.verify_tender_account_id, ..)
on_tender_create_register(registry, tender_account_id) ==
    {AddTenderPromise(registry, tender_account_id)}

\* variant: the platform keeps the callback after running it
on_tender_create_consumed_none(ps, id, deposit, requester, result) == {}

\* the callback attached by .then runs once: running it uses it up
on_tender_create_consumed(ps, id, deposit, requester, result) ==
    {p \in ps : p = PendingCreation(id, deposit, requester, result)}

\* variant: the failure branch reports a success of its own making
on_tender_create_value_true == "true"

\* the failure branch: PromiseOrValue::Value(false)
on_tender_create_value == "false"

\* The refund leaves the factory's balance with the call that creates it.
on_tender_create(caller, tender_account_id, attached_deposit, predecessor_account_id, result) ==
    LET consumed == on_tender_create_consumed(promises, tender_account_id,
                         attached_deposit, predecessor_account_id, result)
        args == [short |-> NoId, owner |-> NoId, deposit |-> attached_deposit,
                 requester |-> predecessor_account_id, result |-> result]
    IN
    IF ~on_tender_create_guard(caller)
    THEN /\ Observe(Call("on_tender_create", caller, tender_account_id, args,
                         "ForgedContinuation", "none", {}))
         /\ UNCHANGED <<factoryVars, registryVars, promises, registry_calls,
                        ledgerVars>>
    ELSE IF tender_created(result)
    THEN LET sent == on_tender_create_register(verify_tender_account_id,
                                               tender_account_id)
         IN /\ tender_account_ids' = tender_account_ids
            /\ registry_calls' = registry_calls \cup
                   {[to |-> m.to, id |-> m.id] : m \in sent}
            /\ promises' = promises \ consumed
            /\ Observe(Call("on_tender_create", caller, tender_account_id, args,
                            "ok", "promise", sent))
            /\ UNCHANGED <<verify_tender_account_id, registryVars, ledgerVars>>
    ELSE LET refund == on_tender_create_refund(predecessor_account_id,
                                               attached_deposit)
         IN /\ tender_account_ids' =
                   on_tender_create_release(tender_account_ids, tender_account_id)
            /\ balance' = Pay(balance, Factory, refund.to, refund.amount)
            /\ promises' = promises \ consumed
            /\ Observe(Call("on_tender_create", caller, tender_account_id, args,
                            "ok", on_tender_create_value, {refund}))
            /\ UNCHANGED <<verify_tender_account_id, registryVars, registry_calls,
                           tender_accounts>>

\* variant: the platform runs the callback without waiting for the chain
on_tender_create_callback_unsettled(p) ==
    /\ p \in promises
    /\ on_tender_create(Factory, p.id, p.deposit, p.requester, p.result)

\* the platform runs the callback of a settled chain, with the captured arguments
on_tender_create_callback(p) ==
    /\ p \in promises
    /\ p.result # "NotReady"
    /\ on_tender_create(Factory, p.id, p.deposit, p.requester, p.result)

\* anyone else calls on_tender_create, with arguments and a result of their choice
on_tender_create_direct(caller, id, deposit, requester, result) ==
    /\ caller # Factory
    /\ on_tender_create(caller, id, deposit, requester, result)

----------------------------------------------------------------------------
(* VerifyTenderContract *)

\* callers of the registry other than the factory, whose only calls are the
\* add_tender promises of on_tender_create
RegistryCallers == {Foundation, OtherFactory}

\* tender_account_id arguments of direct calls
TenderArgs == { ComposeAccountId(<<"a">>, Factory), <<"A">> }

\* factory_account_id arguments
FactoryArgs == { Factory, OtherFactory, Foundation, <<"F">> }

\* variant: the guard lets every caller through
assert_called_by_foundation_any(predecessor, foundation) == TRUE

\* assert_called_by_foundation, as the condition it asserts
assert_called_by_foundation(predecessor, foundation) == predecessor = foundation

\* variant: add_tender asks for no authority
add_tender_authorized_all(predecessor, listed, foundation) == TRUE

\* variant: only the listed factories may add
add_tender_authorized_listed(predecessor, listed, foundation) ==
    predecessor \in listed

\* add_tender: a caller outside factory_verified must be the foundation
add_tender_authorized(predecessor, listed, foundation) ==
    predecessor \in listed \/ assert_called_by_foundation(predecessor, foundation)

\* self.verified.insert(&tender_account_id)
verified_insert(set, x) == set \cup {x}

\* variant: remove_tender leaves the set as it is
verified_remove_none(set, x) == set

\* self.verified.remove(&tender_account_id)
verified_remove(set, x) == set \ {x}

\* add_factory's insert; the source names the field factory_whitelist there,
\* the struct has only factory_verified
factory_verified_insert(set, x) == set \cup {x}

\* variant: remove_factory leaves the set as it is
factory_verified_remove_none(set, x) == set

\* self.factory_verified.remove(&factory_account_id)
factory_verified_remove(set, x) == set \ {x}

BoolRet(b) == IF b THEN "true" ELSE "false"

Aborted(op, caller, id, outcome) ==
    /\ Observe(Call(op, caller, id, NoArgs, outcome, "none", {}))
    /\ UNCHANGED registryVars

Returned(op, caller, id, ret) ==
    Observe(Call(op, caller, id, NoArgs, "ok", BoolRet(ret), {}))

add_tender(caller, tender_account_id) ==
    IF ~is_valid_account_id(tender_account_id)
    THEN Aborted("add_tender", caller, tender_account_id, "InvalidIdentifier")
    ELSE IF ~add_tender_authorized(caller, factory_verified, foundation_account_id)
    THEN Aborted("add_tender", caller, tender_account_id, "Unauthorized")
    ELSE /\ verified' = verified_insert(verified, tender_account_id)
         /\ Returned("add_tender", caller, tender_account_id,
                     tender_account_id \notin verified)
         /\ UNCHANGED <<foundation_account_id, factory_verified>>

remove_tender(caller, tender_account_id) ==
    IF ~assert_called_by_foundation(caller, foundation_account_id)
    THEN Aborted("remove_tender", caller, tender_account_id, "Unauthorized")
    ELSE IF ~is_valid_account_id(tender_account_id)
    THEN Aborted("remove_tender", caller, tender_account_id, "InvalidIdentifier")
    ELSE /\ verified' = verified_remove(verified, tender_account_id)
         /\ Returned("remove_tender", caller, tender_account_id,
                     tender_account_id \in verified)
         /\ UNCHANGED <<foundation_account_id, factory_verified>>

add_factory(caller, factory_account_id) ==
    IF ~is_valid_account_id(factory_account_id)
    THEN Aborted("add_factory", caller, factory_account_id, "InvalidIdentifier")
    ELSE IF ~assert_called_by_foundation(caller, foundation_account_id)
    THEN Aborted("add_factory", caller, factory_account_id, "Unauthorized")
    ELSE /\ factory_verified' =
                factory_verified_insert(factory_verified, factory_account_id)
         /\ Returned("add_factory", caller, factory_account_id,
                     factory_account_id \notin factory_verified)
         /\ UNCHANGED <<foundation_account_id, verified>>

\* variant: removing a factory also drops what is verified
remove_factory_purging(caller, factory_account_id) ==
    IF ~assert_called_by_foundation(caller, foundation_account_id)
    THEN Aborted("remove_factory", caller, factory_account_id, "Unauthorized")
    ELSE IF ~is_valid_account_id(factory_account_id)
    THEN Aborted("remove_factory", caller, factory_account_id, "InvalidIdentifier")
    ELSE /\ factory_verified' =
                factory_verified_remove(factory_verified, factory_account_id)
         /\ verified' = {}
         /\ Returned("remove_factory", caller, factory_account_id,
                     factory_account_id \in factory_verified)
         /\ UNCHANGED foundation_account_id

remove_factory(caller, factory_account_id) ==
    IF ~assert_called_by_foundation(caller, foundation_account_id)
    THEN Aborted("remove_factory", caller, factory_account_id, "Unauthorized")
    ELSE IF ~is_valid_account_id(factory_account_id)
    THEN Aborted("remove_factory", caller, factory_account_id, "InvalidIdentifier")
    ELSE /\ factory_verified' =
                factory_verified_remove(factory_verified, factory_account_id)
         /\ Returned("remove_factory", caller, factory_account_id,
                     factory_account_id \in factory_verified)
         /\ UNCHANGED <<foundation_account_id, verified>>

\* a call made directly by one of the registry's callers
RegistryFrame == UNCHANGED <<factoryVars, promises, registry_calls, ledgerVars>>

add_tender_direct(caller, id)     == add_tender(caller, id) /\ RegistryFrame
remove_tender_direct(caller, id)  == remove_tender(caller, id) /\ RegistryFrame
add_factory_direct(caller, id)    == add_factory(caller, id) /\ RegistryFrame
remove_factory_direct(caller, id) == remove_factory(caller, id) /\ RegistryFrame

\* the platform delivers an add_tender promise of the factory to the account
\* it names; the registry sees the factory as predecessor
add_tender_from_factory(m) ==
    /\ m \in registry_calls
    /\ m.to = Registry
    /\ add_tender(Factory, m.id)
    /\ registry_calls' = registry_calls \ {m}
    /\ UNCHANGED <<factoryVars, promises, ledgerVars>>

----------------------------------------------------------------------------
(* The system *)

\* TenderFactory::new(Registry) and VerifyTenderContract::new(Foundation)
\* have run; nothing else has
Init ==
    /\ tender_account_ids = {}
    /\ verify_tender_account_id = Registry
    /\ foundation_account_id = Foundation
    /\ verified = {}
    /\ factory_verified = {}
    /\ promises = {}
    /\ registry_calls = {}
    /\ balance = [a \in Requesters \cup {Factory} |->
                     IF a = Factory THEN 0 ELSE InitialBalance]
    /\ tender_accounts = <<>>
    /\ last = Call("new", Foundation, NoId, NoArgs, "ok", "none", {})
    /\ pre = [tender_account_ids |-> {}, promises |-> {}, registry_calls |-> {},
              balance |-> [a \in Requesters \cup {Factory} |->
                              IF a = Factory THEN 0 ELSE InitialBalance],
              tender_accounts |-> <<>>, verified |-> {}, factory_verified |-> {}]

ChainResults == {"Successful", "Failed"}

\* direct calls of on_tender_create: who calls, and the arguments they give
ForgedCallers == {Alice, Mallory}
ForgedIds == {ComposeAccountId(<<"a">>, Factory)}
ForgedDeposits == {MIN_ATTACHED_BALANCE}

Next ==
    \/ \E r \in Requesters, s \in ShortIds, o \in OwnerIds, d \in Deposits :
           create_tender(r, s, o, d)
    \/ \E p \in promises, res \in ChainResults : chain_settles(p, res)
    \/ \E p \in promises : on_tender_create_callback(p)
    \/ \E c \in ForgedCallers, id \in ForgedIds, d \in ForgedDeposits,
          r \in Requesters, res \in ChainResults :
           on_tender_create_direct(c, id, d, r, res)
    \/ \E c \in RegistryCallers, id \in TenderArgs : add_tender_direct(c, id)
    \/ \E c \in RegistryCallers, id \in TenderArgs : remove_tender_direct(c, id)
    \/ \E c \in RegistryCallers, id \in FactoryArgs : add_factory_direct(c, id)
    \/ \E c \in RegistryCallers, id \in FactoryArgs : remove_factory_direct(c, id)
    \/ \E m \in registry_calls : add_tender_from_factory(m)

Spec == Init /\ [][Next]_vars

\* identifiers a chain can be issued for
ChainIds ==
    {id \in {ComposeAccountId(t, Factory) : t \in {u \in ShortIds : ~HasDot(u)}} :
        is_valid_account_id(id)}

\* a step of the platform on the chain issued for id: it settles the chain,
\* or runs the callback of the settled chain
ChainAdvances(id) ==
    \E p \in promises :
        /\ p.id = id
        /\ \/ \E res \in ChainResults : chain_settles(p, res)
           \/ on_tender_create_callback(p)

\* the platform drops no receipt: a chain in flight is not left where it is
PlatformDelivers == \A id \in ChainIds : WF_vars(ChainAdvances(id))

FairSpec == Spec /\ PlatformDelivers

----------------------------------------------------------------------------
(* Reading a state: which call the last step was *)

CreateTenderCalled == last.op = "create_tender"

\* the platform has run the callback of a settled chain
CallbackRan == last.op = "on_tender_create" /\ last.caller = Factory

\* the chain whose callback the last step was
CallbackChain == PendingCreation(last.id, last.deposit, last.requester, last.result)

\* on_tender_create was called by somebody else
ForgedCall == last.op = "on_tender_create" /\ last.caller # Factory

AddTenderCalled == last.op = "add_tender"

FiveAborts ==
    {"InsufficientDeposit", "InvalidIdentifierFormat", "InvalidIdentifier",
     "InvalidOwner", "IdentifierAlreadyReserved"}

----------------------------------------------------------------------------
(* C1 *)
\* C1: a create that reserves X adds exactly X to tender_account_ids, and
\* the callback of its failed chain removes exactly X again: after it X is
\* not in the set and the set is one smaller than the callback found it, so
\* the two together are net zero, whatever happened to other identifiers in
\* between.
C1_RollbackNetZero ==
    /\ (CreateTenderCalled /\ last.outcome = "ok") =>
          /\ last.id \notin pre.tender_account_ids
          /\ tender_account_ids = pre.tender_account_ids \cup {last.id}
          /\ Cardinality(tender_account_ids) =
                 Cardinality(pre.tender_account_ids) + 1
    /\ (CallbackRan /\ last.result = "Failed") =>
          /\ CallbackChain \in pre.promises
          /\ last.id \in pre.tender_account_ids
          /\ last.id \notin tender_account_ids
          /\ tender_account_ids = pre.tender_account_ids \ {last.id}
          /\ Cardinality(tender_account_ids) =
                 Cardinality(pre.tender_account_ids) - 1

\* scenario C: one create, its chain failed, the callback has run; the count is 0
C1_Witness ==
    /\ CallbackRan
    /\ last.result = "Failed"
    /\ last.ret = "false"
    /\ tender_account_ids = {}
    /\ promises = {}

----------------------------------------------------------------------------
(* C2 *)
\* C2: the chain carries the deposit attached to the create call and the
\* caller of that call, unchanged until the callback; the callback of a
\* failed chain transfers exactly that deposit to exactly that caller, whose
\* balance grows by it, and to no other account.
C2_RefundToRequester ==
    /\ (CreateTenderCalled /\ last.outcome = "ok") =>
          /\ promises \ pre.promises =
                 {PendingCreation(last.id, last.deposit, last.caller, "NotReady")}
          /\ balance[last.caller] = pre.balance[last.caller] - last.deposit
    /\ last.op = "chain" =>
          /\ PendingCreation(last.id, last.deposit, last.requester, "NotReady")
                 \in pre.promises
          /\ promises \ pre.promises = {CallbackChain}
    /\ (CallbackRan /\ last.result = "Failed") =>
          /\ CallbackChain \in pre.promises
          /\ last.outcome = "ok"
          /\ last.sent = {TransferPromise(last.requester, last.deposit)}
          /\ balance[last.requester] = pre.balance[last.requester] + last.deposit
          /\ balance[Factory] = pre.balance[Factory] - last.deposit
          /\ \A a \in DOMAIN balance \ {last.requester, Factory} :
                 balance[a] = pre.balance[a]
          /\ tender_accounts = pre.tender_accounts

\* Alice's create was rolled back: Alice has her deposit again, Bob and the
\* factory hold what they held at the start
C2_Witness ==
    /\ CallbackRan
    /\ last.sent = {TransferPromise(Alice, MIN_ATTACHED_BALANCE)}
    /\ balance[Alice] = InitialBalance
    /\ pre.balance[Alice] = InitialBalance - MIN_ATTACHED_BALANCE
    /\ balance[Bob] = InitialBalance
    /\ balance[Factory] = 0

----------------------------------------------------------------------------
(* C3 *)
\* C3: the callback of a successful chain for X leaves tender_account_ids
\* as it was, X in it, and sends exactly one promise: add_tender(X) to the
\* account given to TenderFactory::new, a call not already in flight.
C3_SuccessForwardsRegistration ==
    (CallbackRan /\ last.result = "Successful") =>
        /\ CallbackChain \in pre.promises
        /\ last.id \in tender_account_ids
        /\ tender_account_ids = pre.tender_account_ids
        /\ verify_tender_account_id = Registry
        /\ last.sent = {AddTenderPromise(Registry, last.id)}
        /\ Cardinality(last.sent) = 1
        /\ [to |-> Registry, id |-> last.id] \notin pre.registry_calls
        /\ registry_calls =
               pre.registry_calls \cup {[to |-> Registry, id |-> last.id]}
        /\ balance = pre.balance

\* scenario A: "a.fy" was created, its chain succeeded, the callback has
\* sent the registration; the count is 1
C3_Witness ==
    /\ CallbackRan
    /\ last.sent = {AddTenderPromise(Registry, ComposeAccountId(<<"a">>, Factory))}
    /\ tender_account_ids = {ComposeAccountId(<<"a">>, Factory)}
    /\ Cardinality(tender_account_ids) = 1

----------------------------------------------------------------------------
(* C4 *)
\* C4: on_tender_create called by anyone but the factory aborts, whatever
\* identifier, deposit, requester and chain result it is given: nothing is
\* removed from tender_account_ids, no transfer and no add_tender is sent,
\* no chain is consumed, no balance moves.
C4_ForgedContinuationAborts ==
    ForgedCall =>
        /\ last.outcome = "ForgedContinuation"
        /\ last.ret = "none"
        /\ last.sent = {}
        /\ Snapshot = pre

\* a forged call claimed the failure of a chain that had succeeded and was
\* waiting for its callback: the chain is still waiting, the id still reserved
C4_Witness ==
    /\ ForgedCall
    /\ last.caller = Alice
    /\ last.requester = Alice
    /\ last.result = "Failed"
    /\ PendingCreation(last.id, last.deposit, Alice, "Successful") \in promises
    /\ last.id \in tender_account_ids

----------------------------------------------------------------------------
----------------------------------------------------------------------------
(* C6 *)
\* C6: create_tender ends with InsufficientDeposit exactly when the attached
\* deposit is below MIN_ATTACHED_BALANCE; a deposit at or above it, 31 NEAR
\* for one, passes the deposit check.
C6_DepositThreshold ==
    CreateTenderCalled =>
        (last.outcome = "InsufficientDeposit" <=> last.deposit < MIN_ATTACHED_BALANCE)

----------------------------------------------------------------------------
(* C7 *)
\* C7: a create_tender that ends in any of the five aborts changes nothing:
\* not tender_account_ids, not the chains in flight, not the ledger, and it
\* sends no promise; and every identifier in tender_account_ids has its
\* chain, in flight or settled with the account created.
C7_FailedValidationNoEffect ==
    /\ (CreateTenderCalled /\ last.outcome # "ok") =>
          /\ last.outcome \in FiveAborts
          /\ last.sent = {}
          /\ last.ret = "none"
          /\ Snapshot = pre
    /\ \A x \in tender_account_ids :
          \/ \E p \in promises : p.id = x
          \/ x \in DOMAIN tender_accounts

\* the last check before the insert has failed, for a fresh identifier and
\* the minimum deposit, and nothing is reserved
C7_Witness ==
    /\ CreateTenderCalled
    /\ last.outcome = "InvalidOwner"
    /\ last.deposit = MIN_ATTACHED_BALANCE
    /\ last.short = <<"a">>
    /\ tender_account_ids = {}
    /\ promises = {}

----------------------------------------------------------------------------
(* C8 *)
\* C8: a create_tender with a deposit of at least MIN_ATTACHED_BALANCE, a
\* short id without the separator, a well-formed composed id not yet in
\* tender_account_ids and a well-formed owner adds exactly the composed id
\* to tender_account_ids, and changes nothing of the registry.
C8_ValidCreateReserves ==
    ( /\ CreateTenderCalled
      /\ last.deposit >= MIN_ATTACHED_BALANCE
      /\ ~HasDot(last.short)
      /\ is_valid_account_id(last.id)
      /\ is_valid_account_id(last.owner)
      /\ last.id \notin pre.tender_account_ids ) =>
        /\ tender_account_ids = pre.tender_account_ids \cup {last.id}
        /\ Cardinality(tender_account_ids) = Cardinality(pre.tender_account_ids) + 1
        /\ verified = pre.verified
        /\ factory_verified = pre.factory_verified
        /\ foundation_account_id = Foundation

----------------------------------------------------------------------------
(* C9 *)
\* C9: add_tender called by the foundation is never refused for want of
\* authority, listed in factory_verified or not, and with a well-formed id
\* it succeeds and the id is verified; called by an account that is neither
\* the foundation nor in factory_verified it aborts (Unauthorized, the id
\* being well-formed) and changes neither verified nor factory_verified.
C9_AddTenderAuthority ==
    AddTenderCalled =>
        /\ last.caller = foundation_account_id =>
              /\ last.outcome # "Unauthorized"
              /\ is_valid_account_id(last.id) =>
                     /\ last.outcome = "ok"
                     /\ last.ret = BoolRet(last.id \notin pre.verified)
                     /\ verified = pre.verified \cup {last.id}
        /\ ( /\ last.caller # foundation_account_id
             /\ last.caller \notin pre.factory_verified ) =>
              /\ last.outcome # "ok"
              /\ is_valid_account_id(last.id) => last.outcome = "Unauthorized"
              /\ verified = pre.verified
              /\ factory_verified = pre.factory_verified

\* the foundation, not in factory_verified while another account is, has
\* added a tender
C9_Witness ==
    /\ AddTenderCalled
    /\ last.caller = Foundation
    /\ last.outcome = "ok"
    /\ last.ret = "true"
    /\ Foundation \notin factory_verified
    /\ factory_verified # {}
    /\ last.id \in verified

----------------------------------------------------------------------------
(* C10 *)
\* C10: add_tender with a well-formed id, called by an account G other than
\* the foundation (another factory directly, or this factory through the
\* promise of its callback), succeeds exactly when G is in factory_verified
\* at that moment and aborts with Unauthorized otherwise; add_factory(G) by
\* the foundation puts G in, remove_factory(G) by the foundation takes G out,
\* and only the foundation completes either.
C10_IssuerListDecides ==
    /\ ( /\ AddTenderCalled
         /\ last.caller # foundation_account_id
         /\ is_valid_account_id(last.id) ) =>
          /\ last.outcome = "ok" <=> last.caller \in pre.factory_verified
          /\ last.outcome # "ok" => last.outcome = "Unauthorized"
    /\ (last.op = "add_factory" /\ last.outcome = "ok") =>
          /\ last.caller = foundation_account_id
          /\ factory_verified = pre.factory_verified \cup {last.id}
    /\ (last.op = "remove_factory" /\ last.outcome = "ok") =>
          /\ last.caller = foundation_account_id
          /\ factory_verified = pre.factory_verified \ {last.id}
    /\ last.op \in {"add_tender", "remove_tender"} =>
          factory_verified = pre.factory_verified

\* the other factory, the only account listed, has added a tender
C10_Witness ==
    /\ AddTenderCalled
    /\ last.caller = OtherFactory
    /\ last.outcome = "ok"
    /\ factory_verified = {OtherFactory}
    /\ last.id \in verified

----------------------------------------------------------------------------
(* C11 *)
\* the last call was one of the registry's foundation-only methods
FoundationOnlyCalled == last.op \in {"remove_tender", "add_factory", "remove_factory"}

\* C11: remove_tender, add_factory and remove_factory called by anyone but
\* the foundation, an account in factory_verified included, abort and leave
\* verified and factory_verified as they were; the abort is Unauthorized
\* (for add_factory, whose id assert comes first, when the id is well-formed).
\* So no change of factory_verified and no removal from verified is ever
\* the work of a caller other than the foundation.
C11_FoundationOnly ==
    /\ (FoundationOnlyCalled /\ last.caller # foundation_account_id) =>
          /\ last.outcome # "ok"
          /\ (last.op # "add_factory" \/ is_valid_account_id(last.id)) =>
                 last.outcome = "Unauthorized"
          /\ last.ret = "none"
          /\ verified = pre.verified
          /\ factory_verified = pre.factory_verified
    /\ (factory_verified # pre.factory_verified \/ ~(pre.verified \subseteq verified)) =>
          /\ FoundationOnlyCalled
          /\ last.caller = foundation_account_id

\* a listed factory tried to remove a verified tender and was refused
C11_Witness ==
    /\ last.op = "remove_tender"
    /\ last.caller = OtherFactory
    /\ OtherFactory \in factory_verified
    /\ last.outcome = "Unauthorized"
    /\ last.id \in verified

----------------------------------------------------------------------------
(* C12 *)
\* the last call was a write of the registry that returned
RegistryWriteReturned ==
    /\ last.op \in {"add_tender", "remove_tender", "add_factory", "remove_factory"}
    /\ last.outcome = "ok"

\* the set the last registry write is about, before and after it
WrittenSetBefore ==
    IF last.op \in {"add_tender", "remove_tender"}
    THEN pre.verified ELSE pre.factory_verified

WrittenSetAfter ==
    IF last.op \in {"add_tender", "remove_tender"}
    THEN verified ELSE factory_verified

\* C12: a registry write that returns, returns true exactly when it changed
\* membership: add_tender / add_factory return true when the id was absent
\* and false when present, and the id is a member afterwards; remove_tender /
\* remove_factory return true when the id was present and false when absent,
\* and the id is not a member afterwards; a false return leaves the set as
\* it was, and the other set is never touched.  (Hence add, add returns true,
\* false, and add, remove, add returns true, true, true.)
C12_ReturnsMembershipChange ==
    RegistryWriteReturned =>
        /\ last.ret \in {"true", "false"}
        /\ last.op \in {"add_tender", "add_factory"} =>
              /\ last.ret = BoolRet(last.id \notin WrittenSetBefore)
              /\ WrittenSetAfter = WrittenSetBefore \cup {last.id}
        /\ last.op \in {"remove_tender", "remove_factory"} =>
              /\ last.ret = BoolRet(last.id \in WrittenSetBefore)
              /\ WrittenSetAfter = WrittenSetBefore \ {last.id}
        /\ last.ret = "true" <=> WrittenSetAfter # WrittenSetBefore
        /\ last.op \in {"add_tender", "remove_tender"} =>
              factory_verified = pre.factory_verified
        /\ last.op \in {"add_factory", "remove_factory"} =>
              verified = pre.verified

\* remove_tender of an id that is not verified has returned false, while a
\* factory is listed
C12_Witness ==
    /\ last.op = "remove_tender"
    /\ last.outcome = "ok"
    /\ last.ret = "false"
    /\ last.id \notin pre.verified
    /\ verified = pre.verified
    /\ factory_verified # {}

\* the second of two add_tender calls for one id has returned false
C12_SecondAdd ==
    /\ last.op = "add_tender"
    /\ last.outcome = "ok"
    /\ last.ret = "false"
    /\ last.id \in pre.verified

----------------------------------------------------------------------------
(* C13 *)
\* the registry has executed an add_tender promise of the factory
RegistrationDelivered == last.op = "add_tender" /\ last.caller = Factory

\* C13: what a create_tender call resolves to.  When its chain has failed,
\* the callback returns the value false, as a normal return and not an
\* abort, and sends no add_tender.  When its chain has succeeded, the
\* callback returns no value of its own but the add_tender promise it sends,
\* so the result is the registry's: true or false when add_tender returns,
\* its abort when the registry refuses the factory.
C13_OutcomeObserved ==
    /\ (CallbackRan /\ last.result = "Failed") =>
          /\ last.outcome = "ok"
          /\ last.ret = "false"
          /\ \A m \in last.sent : m.kind # "add_tender"
          /\ registry_calls = pre.registry_calls
    /\ (CallbackRan /\ last.result = "Successful") =>
          /\ last.outcome = "ok"
          /\ last.ret = "promise"
          /\ last.sent = {AddTenderPromise(verify_tender_account_id, last.id)}
          /\ [to |-> Registry, id |-> last.id] \in registry_calls
    /\ CallbackRan => last.ret \notin {"true", "none"}
    /\ RegistrationDelivered =>
          /\ [to |-> Registry, id |-> last.id] \in pre.registry_calls
          /\ [to |-> Registry, id |-> last.id] \notin registry_calls
          /\ last.id \in tender_account_ids
          /\ \/ last.outcome = "ok" /\ last.ret = BoolRet(last.id \notin pre.verified)
             \/ last.outcome = "Unauthorized" /\ Factory \notin pre.factory_verified

\* the chain succeeded and the registry, not listing the factory, has refused
\* the registration: that refusal is what the create resolves to
C13_Witness ==
    /\ RegistrationDelivered
    /\ last.outcome = "Unauthorized"
    /\ last.id \in tender_account_ids
    /\ last.id \in DOMAIN tender_accounts
    /\ last.id \notin verified

----------------------------------------------------------------------------
(* C14 *)
RECURSIVE SumOf(_, _)
\* the sum of f over the accounts in S
SumOf(f, S) ==
    IF S = {} THEN 0
    ELSE LET a == CHOOSE x \in S : TRUE IN f[a] + SumOf(f, S \ {a})

RECURSIVE DepositsOf(_)
\* the deposits carried by a set of chains
DepositsOf(ps) ==
    IF ps = {} THEN 0
    ELSE LET p == CHOOSE x \in ps : TRUE IN p.deposit + DepositsOf(ps \ {p})

\* everything held by the requesters, the factory and the accounts created
TotalHeld ==
    SumOf(balance, DOMAIN balance) + SumOf(tender_accounts, DOMAIN tender_accounts)

\* chains whose deposit has neither reached the new account nor gone back
ChainsHoldingDeposit == {p \in promises : p.result # "Successful"}

\* C14: the deposit of a create is held by the factory only until its chain
\* is through: a successful chain puts the whole of it on the new account
\* and its callback refunds nothing; the callback of a failed chain
\* transfers the whole of it back to the requester.  So the factory holds
\* exactly the deposits of the chains not yet through (nothing when none is
\* in flight), and the total over requesters, factory and created accounts
\* never changes.
C14_DepositConserved ==
    /\ TotalHeld = InitialBalance * Cardinality(Requesters)
    /\ balance[Factory] = DepositsOf(ChainsHoldingDeposit)
    /\ promises = {} => balance[Factory] = 0
    /\ (last.op = "chain" /\ last.result = "Successful") =>
          /\ last.id \notin DOMAIN pre.tender_accounts
          /\ tender_accounts[last.id] = last.deposit
          /\ balance[Factory] = pre.balance[Factory] - last.deposit
          /\ balance[last.requester] = pre.balance[last.requester]
    /\ (CallbackRan /\ last.result = "Successful") =>
          /\ tender_accounts[last.id] = last.deposit
          /\ balance = pre.balance
          /\ \A m \in last.sent : m.kind # "transfer"
    /\ (CallbackRan /\ last.result = "Failed") =>
          /\ last.id \notin DOMAIN tender_accounts
          /\ balance[last.requester] = pre.balance[last.requester] + last.deposit
          /\ balance[Factory] = pre.balance[Factory] - last.deposit

\* Alice's create is through, successfully: the new account holds her
\* deposit, the factory nothing, and she what she kept
C14_Witness ==
    /\ CallbackRan
    /\ last.result = "Successful"
    /\ last.requester = Alice
    /\ promises = {}
    /\ tender_accounts[last.id] = MIN_ATTACHED_BALANCE
    /\ balance[Factory] = 0
    /\ balance[Alice] = InitialBalance - MIN_ATTACHED_BALANCE
    /\ balance[Bob] = InitialBalance

----------------------------------------------------------------------------
(* C15 *)
\* a chain is in flight for id: issued, its callback not yet run
ChainInFlight(id) == \E p \in promises : p.id = id

\* what one run of the callback does: it uses up the chain it belongs to and
\* takes one branch, the registration or the release with the refund
C15_OneRunOneBranch ==
    /\ CallbackRan =>
          /\ CallbackChain \in pre.promises
          /\ promises = pre.promises \ {CallbackChain}
          /\ ~ChainInFlight(last.id)
          /\ Cardinality(last.sent) = 1
          /\ \/ /\ last.result = "Successful"
                /\ last.sent = {AddTenderPromise(Registry, last.id)}
                /\ tender_account_ids = pre.tender_account_ids
                /\ balance = pre.balance
             \/ /\ last.result = "Failed"
                /\ last.sent = {TransferPromise(last.requester, last.deposit)}
                /\ tender_account_ids = pre.tender_account_ids \ {last.id}
                /\ registry_calls = pre.registry_calls
    /\ ~(registry_calls \subseteq pre.registry_calls) =>
          CallbackRan /\ last.result = "Successful"
    /\ (\E r \in Requesters : balance[r] > pre.balance[r]) =>
          CallbackRan /\ last.result = "Failed"
    /\ ForgedCall => promises = pre.promises

\* C15: every chain issued by create_tender has its callback run, provided
\* the platform drops no receipt, and run once: the run uses the chain up
\* and takes exactly one branch, one add_tender to the registry or one
\* release with one refund; no registration and no refund comes from
\* anything but such a run.
C15_HandlerExactlyOnce ==
    /\ []C15_OneRunOneBranch
    /\ \A id \in ChainIds :
           ChainInFlight(id) ~> (CallbackRan /\ last.id = id /\ ~ChainInFlight(id))

\* Bob's chain has been run to its end while Alice's is still in flight
C15_Witness ==
    /\ CallbackRan
    /\ last.requester = Bob
    /\ ~ChainInFlight(last.id)
    /\ \E p \in promises : p.requester = Alice /\ p.result = "NotReady"

----------------------------------------------------------------------------
(* C16 *)
\* the chain issued for id has not been compensated away: it is in flight
\* (pending, or settled and waiting for its callback), or it has succeeded
\* and left the account it created
ChainStands(id) == ChainInFlight(id) \/ id \in DOMAIN tender_accounts

\* every identifier the factory, the platform or a caller has named
NamedIds ==
    ChainIds \cup tender_account_ids \cup DOMAIN tender_accounts
        \cup {p.id : p \in promises} \cup {last.id}

\* C16: in every state an identifier is in tender_account_ids if and only
\* if a chain has been issued for it and not compensated away: the create
\* that inserts it issues its chain, the failure branch of the callback
\* takes both away, and nothing else touches either.
C16_ReservedIffChainStands ==
    /\ \A id \in NamedIds : id \in tender_account_ids <=> ChainStands(id)
    /\ (CreateTenderCalled /\ last.outcome = "ok") =>
          /\ ~(\E p \in pre.promises : p.id = last.id)
          /\ last.id \notin DOMAIN pre.tender_accounts
          /\ ChainInFlight(last.id)
          /\ last.id \in tender_account_ids
    /\ (CallbackRan /\ last.result = "Failed") =>
          /\ ~ChainStands(last.id)
          /\ last.id \notin tender_account_ids

\* of two identifiers created, one has been compensated away and is free
\* again, the other has succeeded and is reserved with no chain in flight
C16_Witness ==
    /\ CallbackRan
    /\ last.result = "Failed"
    /\ last.id \notin tender_account_ids
    /\ promises = {}
    /\ Cardinality(tender_account_ids) = 1
    /\ tender_account_ids = DOMAIN tender_accounts

----------------------------------------------------------------------------
(* C17 *)
\* C17: for one identifier, the insert comes before the chain and the
\* chain before the callback.  A chain is issued only by a create_tender
\* whose insert was new, so every chain in flight is for a reserved
\* identifier; the platform executes a chain only after the call that
\* issued it; the callback runs only for a chain that was issued and has
\* settled, its identifier still reserved; and a call of on_tender_create
\* that belongs to no chain does not get past the guard.
C17_InsertChainCallbackOrder ==
    /\ \A p \in promises : p.id \in tender_account_ids
    /\ CreateTenderCalled =>
          IF promises # pre.promises
          THEN /\ last.outcome = "ok"
               /\ InsertIsNew(pre.tender_account_ids, last.id)
               /\ last.id \in tender_account_ids
               /\ promises \ pre.promises =
                      {PendingCreation(last.id, last.deposit, last.caller, "NotReady")}
          ELSE /\ last.outcome # "ok"
               /\ tender_account_ids = pre.tender_account_ids
    /\ last.op = "chain" =>
          /\ PendingCreation(last.id, last.deposit, last.requester, "NotReady")
                 \in pre.promises
          /\ last.id \in pre.tender_account_ids
          /\ last.result \in ChainResults
    /\ CallbackRan =>
          /\ CallbackChain \in pre.promises
          /\ last.result \in ChainResults
          /\ last.id \in pre.tender_account_ids
    /\ last.op = "on_tender_create" =>
          \/ CallbackRan
          \/ last.outcome = "ForgedContinuation" /\ promises = pre.promises

\* Alice's callback has run while Bob's chain, already failed, still waits
\* for its own, his identifier reserved
C17_Witness ==
    /\ CallbackRan
    /\ last.requester = Alice
    /\ last.result = "Successful"
    /\ \E p \in promises :
          /\ p.requester = Bob
          /\ p.result = "Failed"
          /\ p.id \in tender_account_ids

----------------------------------------------------------------------------
(* C18 *)
\* the reservations and chains of the identifiers other than id
OtherReservations(ids, id) == ids \ {id}
OtherChains(ps, id) == {p \in ps : p.id # id}

\* C18: identifiers do not interfere.  A step about X (create_tender for X,
\* the platform settling X's chain, X's callback on either branch) changes
\* neither the membership in tender_account_ids nor the chain of any
\* identifier Y other than X; and how a create_tender for Y ends does not
\* depend on what else is reserved: it ends as it would with every other
\* reservation, pending or failed, taken out of the set.
C18_IdentifiersIndependent ==
    /\ (CreateTenderCalled \/ last.op \in {"chain", "on_tender_create"}) =>
          /\ OtherReservations(tender_account_ids, last.id) =
                 OtherReservations(pre.tender_account_ids, last.id)
          /\ OtherChains(promises, last.id) = OtherChains(pre.promises, last.id)
    /\ CreateTenderCalled =>
          /\ last.outcome =
                 create_tender_outcome(pre.tender_account_ids \cap {last.id}, Factory,
                                       last.short, last.owner, last.deposit)
          /\ \A x \in OtherReservations(pre.tender_account_ids, last.id) :
                 last.outcome =
                     create_tender_outcome(pre.tender_account_ids \ {x}, Factory,
                                           last.short, last.owner, last.deposit)

\* the callback of a failed chain has released its identifier while another
\* identifier, its own chain failed and not yet compensated, stays reserved
C18_Witness ==
    /\ CallbackRan
    /\ last.result = "Failed"
    /\ \E p \in promises :
          /\ p.id # last.id
          /\ p.result = "Failed"
          /\ p.id \in tender_account_ids

\* a create_tender was accepted while the chain of another identifier had failed
C18_CreateBesideFailedChain ==
    /\ CreateTenderCalled
    /\ last.outcome = "ok"
    /\ \E p \in promises : p.id # last.id /\ p.result = "Failed"

----------------------------------------------------------------------------
(* C19 *)
\* identifiers that were reserved before the last step and are not now
Released == pre.tender_account_ids \ tender_account_ids

\* C19: an identifier leaves tender_account_ids only by the failure branch
\* of its own callback; no other call, of the factory, of the registry or
\* forged, removes one.  So there is no way to cancel: an identifier whose
\* chain has settled successfully (its account exists from then on) is in
\* tender_account_ids in every state, and its callback, when it runs, keeps it.
C19_NoCancellation ==
    /\ Released # {} =>
          /\ CallbackRan
          /\ last.result = "Failed"
          /\ CallbackChain \in pre.promises
          /\ Released = {last.id}
    /\ DOMAIN pre.tender_accounts \subseteq DOMAIN tender_accounts
    /\ DOMAIN tender_accounts \subseteq tender_account_ids
    /\ \A p \in promises : p.result = "Successful" => p.id \in DOMAIN tender_accounts
    /\ (CallbackRan /\ last.id \in DOMAIN tender_accounts) =>
          /\ last.result = "Successful"
          /\ last.id \in tender_account_ids

\* long after its chain succeeded and its callback ran, the identifier is
\* still reserved: a forged failure callback for it has just been refused
C19_Witness ==
    /\ ForgedCall
    /\ last.result = "Failed"
    /\ last.id \in DOMAIN tender_accounts
    /\ ~ChainInFlight(last.id)
    /\ last.id \in tender_account_ids
    /\ last.id \in verified

----------------------------------------------------------------------------
(* C20 *)
\* the chains in flight for id
ChainsOf(ps, id) == {p \in ps : p.id = id}

\* C20: an identifier never has more than one chain in flight.  A
\* create_tender that issues a chain for X finds none for X, so a later
\* create of X comes only after the callback of the earlier one; the
\* callback that runs for X finds its own chain as the only one for X, so
\* the reservation it keeps or releases is the one made with that chain,
\* and after it no chain for X is left whose callback could release a
\* reservation made later.
C20_OneChainPerIdentifier ==
    /\ \A id \in NamedIds : Cardinality(ChainsOf(promises, id)) <= 1
    /\ (CreateTenderCalled /\ last.outcome = "ok") =>
          /\ ChainsOf(pre.promises, last.id) = {}
          /\ ChainsOf(promises, last.id) =
                 {PendingCreation(last.id, last.deposit, last.caller, "NotReady")}
    /\ CallbackRan =>
          /\ ChainsOf(pre.promises, last.id) = {CallbackChain}
          /\ ChainsOf(promises, last.id) = {}
    /\ \A p \in promises :
          /\ p.id \in tender_account_ids
          /\ p.result # "Successful" => p.id \notin DOMAIN tender_accounts

\* two chains were in flight, one for each of two identifiers; the callback
\* of one has released its identifier, the other is still reserved
C20_Witness ==
    /\ CallbackRan
    /\ last.result = "Failed"
    /\ Cardinality(pre.promises) = 2
    /\ Cardinality(promises) = 1
    /\ last.id \notin tender_account_ids
    /\ Cardinality(tender_account_ids) = 1

----------------------------------------------------------------------------
(* C21 *)
\* the last step was the callback of a failed chain, which released its id
ReleasedByCallback ==
    /\ CallbackRan
    /\ last.result = "Failed"
    /\ last.id \notin tender_account_ids

\* this step is a create_tender for the identifier just released, as
\* well-formed as the first one was, with the owner well-formed
RecreateStep ==
    /\ ReleasedByCallback
    /\ last'.op = "create_tender"
    /\ last'.id = last.id
    /\ is_valid_account_id(last'.owner)

\* C21: once the callback of X's failed chain has released X, a
\* create_tender for the same short id with a deposit of at least
\* MIN_ATTACHED_BALANCE is accepted and reserves X again; the same call made
\* while X's chain is in flight is refused.
C21_RecreateAfterRelease ==
    /\ [][(RecreateStep /\ last'.deposit >= MIN_ATTACHED_BALANCE) =>
             (last'.outcome = "ok" /\ last.id \in tender_account_ids')]_vars
    /\ [](CreateTenderCalled /\ ChainsOf(pre.promises, last.id) # {} =>
             last.outcome # "ok")

\* the same with the deposit the check as written lets through
C21_RecreateAtMinimum ==
    /\ [][(RecreateStep /\ DepositAccepted(last'.deposit)) =>
             (last'.outcome = "ok" /\ last.id \in tender_account_ids'
              /\ ChainsOf(promises', last.id) =
                     {PendingCreation(last.id, last'.deposit, last'.caller, "NotReady")})]_vars
    /\ [](CreateTenderCalled /\ ChainsOf(pre.promises, last.id) # {} =>
             last.outcome # "ok")

----------------------------------------------------------------------------
(* C22 *)
\* the registry has refused the add_tender promise of the factory
RegistrationRefused == RegistrationDelivered /\ last.outcome = "Unauthorized"

\* C22: the registry refuses the factory's add_tender for X exactly when
\* the factory, which is not the foundation, is not in factory_verified at
\* that moment; and then nothing is undone: X stays in tender_account_ids,
\* the account created keeps the deposit, no transfer goes to the requester,
\* verified is as it was, and the promise is gone with nothing taking its
\* place.  So an identifier provisioned with success may stay unverified.
C22_RefusalNotCompensated ==
    /\ RegistrationDelivered =>
          (RegistrationRefused <=> Factory \notin pre.factory_verified)
    /\ RegistrationRefused =>
          /\ last.id \in tender_account_ids
          /\ tender_account_ids = pre.tender_account_ids
          /\ last.id \in DOMAIN tender_accounts
          /\ tender_accounts = pre.tender_accounts
          /\ balance = pre.balance
          /\ last.sent = {}
          /\ promises = pre.promises
          /\ verified = pre.verified
          /\ factory_verified = pre.factory_verified
          /\ registry_calls =
                 pre.registry_calls \ {[to |-> Registry, id |-> last.id]}

\* nothing is in flight any more: Alice's identifier is provisioned, its
\* account holds her deposit, and it is not verified
C22_Witness ==
    /\ RegistrationRefused
    /\ promises = {}
    /\ registry_calls = {}
    /\ tender_account_ids = {last.id}
    /\ tender_accounts[last.id] = MIN_ATTACHED_BALANCE
    /\ balance[Alice] = InitialBalance - MIN_ATTACHED_BALANCE
    /\ balance[Factory] = 0
    /\ verified = {}

----------------------------------------------------------------------------
(* C23 *)
\* C23: the registry's two sets do not touch each other and its foundation
\* never changes.  add_factory and remove_factory, however they end, leave
\* verified as it was, so what a factory has added stays verified when the
\* factory is removed; add_tender and remove_tender, however they end, leave
\* factory_verified as it was; the calls of the factory and the platform's
\* steps change neither; and foundation_account_id is the account given to
\* new in every state.
C23_ListsIndependent ==
    /\ foundation_account_id = Foundation
    /\ last.op \in {"add_factory", "remove_factory"} => verified = pre.verified
    /\ last.op \in {"add_tender", "remove_tender"} =>
          factory_verified = pre.factory_verified
    /\ last.op \in {"create_tender", "chain", "on_tender_create"} =>
          /\ verified = pre.verified
          /\ factory_verified = pre.factory_verified

\* the foundation has taken the other factory off the list, the list is
\* empty again, and a tender is still verified
C23_Witness ==
    /\ last.op = "remove_factory"
    /\ last.caller = Foundation
    /\ last.id = OtherFactory
    /\ last.ret = "true"
    /\ factory_verified = {}
    /\ verified # {}
    /\ verified = pre.verified

\* The negation of a scenario, stated to be refuted: "a factory is never
\* removed right after it has added a tender, with the tender still
\* verified".  TLC refutes it with add_factory(G), add_tender by G,
\* remove_factory(G), which shows the scenario of C23 occurring.
C23_NeverRemovedAfterAdding ==
    [][~( /\ last.op = "add_tender"
          /\ last.caller = OtherFactory
          /\ last.outcome = "ok"
          /\ last'.op = "remove_factory"
          /\ last'.id = OtherFactory
          /\ last'.ret = "true"
          /\ last.id \in verified' )]_vars

====
